---- MODULE Spec2Model ----
(***************************************************************************)
(* Model of BicepsCurlCounter (src/scripts/biceps_curl_counter.py): the    *)
(* per-arm dwell-debounced level tracker, the repetition validator and the *)
(* session counters.                                                       *)
(*                                                                         *)
(* Time is counted in ticks of 0.1 s, so min_hold_time = 0.2 s is 2 ticks. *)
(* Angles are whole degrees.  An optional number (None or a float in the   *)
(* code) is a sequence: <<>> for None, <<x>> for the number x.             *)
(*                                                                         *)
(* Attributes the class writes but never reads back (last_state_time,      *)
(* previous_state, hit_up, hit_down, max_torso_angle, debug_mode) are not  *)
(* part of the state.                                                      *)
(***************************************************************************)
EXTENDS Integers, Sequences, FiniteSets, TLC

VARIABLES trk, clock, status, lastOp, env, ghost

vars == <<trk, clock, status, lastOp, env, ghost>>

\* ---------------------------------------------------------------- bounds
FreeFrames == 5
HeldFrames == 10
MaxGated == 1
EdgeFrames == 3
LongFrames == 16
TorsoFrames == 10
RomFrames == 18
MaxMissing == 1
ClockFrames == 4
RowFrames == 16
MaxOdd == 1
PairFrames == 8
FormFrames == 10

\* ----------------------------------------------- configuration (__init__)
angle_threshold_down == 160
angle_threshold_up == 50
torso_angle_threshold == 30
min_hold_time == 2
history_length == 12
TorsoWindow == 3
\* The torso angle the callers pass when the landmarks are missing (999.0).
MissingTorso == 999

Arms == {"left", "right"}
Copies == {1, 2}
Levels == {"down", "transition", "up"}

None == <<>>
Some(x) == <<x>>

\* ------------------------------------------------------- pure helpers
RECURSIVE SeqSum(_)
SeqSum(s) == IF s = <<>> THEN 0 ELSE Head(s) + SeqSum(Tail(s))

Min2(a, b) == IF a <= b THEN a ELSE b
Max2(a, b) == IF a >= b THEN a ELSE b

\* Variant: a full list keeps its oldest entries and drops the new one.
PushBoundedMutKeepsOldest(s, x, cap) ==
    IF Len(s) >= cap THEN s ELSE Append(s, x)

\* list.append(x) followed by pop(0) while longer than cap
PushBounded(s, x, cap) ==
    LET s1 == Append(s, x)
    IN IF Len(s1) > cap THEN Tail(s1) ELSE s1

\* float(np.mean(history)) as the exact fraction sum/len; None when empty
Mean(s) == IF s = <<>> THEN None ELSE Some([num |-> SeqSum(s), den |-> Len(s)])

\* np.mean(window) > threshold, for whole-degree samples
AvgExceeds(s, thr) == SeqSum(s) > thr * Len(s)

\* The reason strings of the cycle close, shortened; ReasonRank is their
\* order under Python's sorted() on the full strings:
\*   "Did not reach DOWN..." < "Did not reach UP..." < "Insufficient ROM..."
\*   < "No transition detected" < "Torso angle exceeded..."
Reasons == {"did_not_reach_down", "did_not_reach_up", "insufficient_rom",
            "no_transition", "torso_exceeded"}

ReasonRank(r) ==
    CASE r = "did_not_reach_down" -> 1
      [] r = "did_not_reach_up" -> 2
      [] r = "insufficient_rom" -> 3
      [] r = "no_transition" -> 4
      [] r = "torso_exceeded" -> 5

RECURSIVE SortedReasons(_)
SortedReasons(S) ==
    IF S = {} THEN <<>>
    ELSE LET m == CHOOSE r \in S : \A q \in S : ReasonRank(r) <= ReasonRank(q)
         IN <<m>> \o SortedReasons(S \ {m})

\* ------------------------------------------------------------- __init__
InitArm ==
    [ state |-> "unknown",
      pending_state |-> "none",
      pending_since |-> None,
      angle_history |-> <<>>,
      torso_angles |-> <<>>,
      torso_violation_during_transition |-> FALSE,
      visited_down |-> FALSE,
      visited_transition |-> FALSE,
      visited_up |-> FALSE,
      started_from_down |-> FALSE,
      reached_up_in_cycle |-> FALSE,
      descending_to_down |-> FALSE,
      rep_is_valid |-> TRUE,
      invalid_reasons |-> {},
      last_rep_reasons |-> <<>>,
      min_angle_in_rep |-> None,
      max_angle_in_rep |-> None,
      reps |-> 0,
      correct_reps |-> 0,
      incorrect_reps |-> 0,
      raw_angle |-> None,
      cycle_index |-> 0,
      arm_visible |-> TRUE,
      avg_confidence |-> 100,
      visibility_message |-> None,
      alignment_warning |-> FALSE ]

InitTracker ==
    [ arm |-> [a \in Arms |-> InitArm],
      total_reps |-> 0,
      min_rom_degrees |-> 0 ]

\* --------------------------------------------------------------- update
\* Lines 154-172: the visibility echo and the alignment warning of one side.
StoreVisibility(t, a, in) ==
    [t EXCEPT !.arm[a].arm_visible = in.visible,
              !.arm[a].avg_confidence = in.confidence,
              !.arm[a].visibility_message =
                  IF in.visible THEN None ELSE Some(in.confidence),
              !.arm[a].alignment_warning = ~in.aligned]

\* Variant: flags on the newest sample instead of the window average.
UpdateViolationTimersMutNoAvg(t, a, torso_angle) ==
    LET w == PushBounded(t.arm[a].torso_angles, torso_angle, TorsoWindow)
    IN [t EXCEPT !.arm[a].torso_angles = w,
                 !.arm[a].torso_violation_during_transition =
                     @ \/ (Len(w) = TorsoWindow /\ torso_angle > torso_angle_threshold)]

\* Variant: the flag follows the current window instead of staying set.
UpdateViolationTimersMutNotSticky(t, a, torso_angle) ==
    LET w == PushBounded(t.arm[a].torso_angles, torso_angle, TorsoWindow)
    IN [t EXCEPT !.arm[a].torso_angles = w,
                 !.arm[a].torso_violation_during_transition =
                     Len(w) = TorsoWindow /\ AvgExceeds(w, torso_angle_threshold)]

\* Variant: the sentinel of missing landmarks is not sampled.
UpdateViolationTimersMutSkipsMissing(t, a, torso_angle) ==
    LET w == PushBounded(t.arm[a].torso_angles, torso_angle, TorsoWindow)
    IN IF torso_angle >= MissingTorso THEN t
       ELSE [t EXCEPT !.arm[a].torso_angles = w,
                      !.arm[a].torso_violation_during_transition =
                          @ \/ (Len(w) = TorsoWindow /\ AvgExceeds(w, torso_angle_threshold))]

\* Variant: the average is tested on a window of two samples already.
UpdateViolationTimersMutShortWindow(t, a, torso_angle) ==
    LET w == PushBounded(t.arm[a].torso_angles, torso_angle, TorsoWindow)
    IN [t EXCEPT !.arm[a].torso_angles = w,
                 !.arm[a].torso_violation_during_transition =
                     @ \/ (Len(w) >= 2 /\ AvgExceeds(w, torso_angle_threshold))]

\* update._update_violation_timers(side, aligned, torso_angle)
UpdateViolationTimers(t, a, torso_angle) ==
    LET w == PushBounded(t.arm[a].torso_angles, torso_angle, TorsoWindow)
    IN [t EXCEPT !.arm[a].torso_angles = w,
                 !.arm[a].torso_violation_during_transition =
                     @ \/ (Len(w) = TorsoWindow /\ AvgExceeds(w, torso_angle_threshold))]

\* Variant: the thresholds themselves belong to DOWN and UP.
ProposedMutInclusive(angle) ==
    IF angle >= angle_threshold_down THEN "down"
    ELSE IF angle <= angle_threshold_up THEN "up"
    ELSE "transition"

\* Lines 270-279: the level the raw angle proposes.
Proposed(angle) ==
    IF angle > angle_threshold_down THEN "down"
    ELSE IF angle < angle_threshold_up THEN "up"
    ELSE "transition"

\* Variant: a frame proposing the committed level keeps the pending level.
DwellMutKeepPending(state, pending_state, pending_since, proposed, current_time) ==
    IF proposed = state
    THEN [commit |-> FALSE, pending_state |-> pending_state,
          pending_since |-> pending_since]
    ELSE IF pending_state = proposed
         THEN [commit |-> (current_time - pending_since[1]) >= min_hold_time,
               pending_state |-> pending_state, pending_since |-> pending_since]
         ELSE [commit |-> FALSE, pending_state |-> proposed,
               pending_since |-> Some(current_time)]

\* Variant: a frame that continues a pending level too young to commit
\* restarts its clock.
DwellMutRestart(state, pending_state, pending_since, proposed, current_time) ==
    IF proposed = state
    THEN [commit |-> FALSE, pending_state |-> "none", pending_since |-> None]
    ELSE IF pending_state = proposed
              /\ (current_time - pending_since[1]) >= min_hold_time
         THEN [commit |-> TRUE,
               pending_state |-> pending_state, pending_since |-> pending_since]
         ELSE [commit |-> FALSE, pending_state |-> proposed,
               pending_since |-> Some(current_time)]

\* Variant: any proposed change commits at once.
DwellMutImmediate(state, pending_state, pending_since, proposed, current_time) ==
    IF proposed = state
    THEN [commit |-> FALSE, pending_state |-> "none", pending_since |-> None]
    ELSE [commit |-> TRUE, pending_state |-> proposed,
          pending_since |-> Some(current_time)]

\* Variant: a frame proposing the committed level clears the pending level
\* but keeps its start time.
DwellMutKeepsSince(state, pending_state, pending_since, proposed, current_time) ==
    IF proposed = state
    THEN [commit |-> FALSE, pending_state |-> "none", pending_since |-> pending_since]
    ELSE IF pending_state = proposed
         THEN [commit |-> (current_time - pending_since[1]) >= min_hold_time,
               pending_state |-> pending_state, pending_since |-> pending_since]
         ELSE [commit |-> FALSE, pending_state |-> proposed,
               pending_since |-> Some(current_time)]

\* Variant: the first level proposed to an arm in UNKNOWN is committed at once.
DwellMutFirstFromUnknown(state, pending_state, pending_since, proposed, current_time) ==
    IF proposed = state
    THEN [commit |-> FALSE, pending_state |-> "none", pending_since |-> None]
    ELSE IF state = "unknown"
         THEN [commit |-> TRUE, pending_state |-> proposed,
               pending_since |-> Some(current_time)]
         ELSE IF pending_state = proposed
              THEN [commit |-> (current_time - pending_since[1]) >= min_hold_time,
                    pending_state |-> pending_state, pending_since |-> pending_since]
              ELSE [commit |-> FALSE, pending_state |-> proposed,
                    pending_since |-> Some(current_time)]

\* Lines 284-295: the dwell decision; the locals commit, pending_state and
\* pending_since after it.
Dwell(state, pending_state, pending_since, proposed, current_time) ==
    IF proposed = state
    THEN [commit |-> FALSE, pending_state |-> "none", pending_since |-> None]
    ELSE IF pending_state = proposed
         THEN [commit |-> (current_time - pending_since[1]) >= min_hold_time,
               pending_state |-> pending_state, pending_since |-> pending_since]
         ELSE [commit |-> FALSE, pending_state |-> proposed,
               pending_since |-> Some(current_time)]

\* Variant: the session total is not raised.
IncrementRepMutNoTotal(t, a) ==
    [t EXCEPT !.arm[a].reps = @ + 1,
              !.arm[a].correct_reps = IF t.arm[a].rep_is_valid THEN @ + 1 ELSE @,
              !.arm[a].incorrect_reps = IF t.arm[a].rep_is_valid THEN @ ELSE @ + 1]

\* Variant: an invalid rep is counted in reps only.
IncrementRepMutDropsInvalid(t, a) ==
    [t EXCEPT !.total_reps = @ + 1,
              !.arm[a].reps = @ + 1,
              !.arm[a].correct_reps = IF t.arm[a].rep_is_valid THEN @ + 1 ELSE @]

\* _increment_rep(arm)
IncrementRep(t, a) ==
    [t EXCEPT !.total_reps = @ + 1,
              !.arm[a].reps = @ + 1,
              !.arm[a].correct_reps = IF t.arm[a].rep_is_valid THEN @ + 1 ELSE @,
              !.arm[a].incorrect_reps = IF t.arm[a].rep_is_valid THEN @ ELSE @ + 1]

\* Variant: a commit into DOWN does not set visited_down.
TrackCommitMutNoDownVisit(t, a, state, new_state) ==
    LET t1 == [t EXCEPT
                 !.arm[a].visited_transition = IF new_state = "transition" THEN TRUE ELSE @,
                 !.arm[a].visited_up = IF new_state = "up" THEN TRUE ELSE @]
        t2 == IF state = "down" /\ new_state \in {"transition", "up"}
              THEN [t1 EXCEPT !.arm[a].started_from_down = TRUE,
                              !.arm[a].reached_up_in_cycle = FALSE,
                              !.arm[a].descending_to_down = FALSE]
              ELSE t1
        t3 == IF new_state = "up" /\ t2.arm[a].started_from_down
              THEN [t2 EXCEPT !.arm[a].reached_up_in_cycle = TRUE]
              ELSE t2
        t4 == IF state = "up" /\ new_state = "transition" /\ t3.arm[a].reached_up_in_cycle
              THEN [t3 EXCEPT !.arm[a].descending_to_down = TRUE]
              ELSE t3
    IN t4

\* Variant: a commit DOWN -> UP does not restart the progress flags.
TrackCommitMutNoRestart(t, a, state, new_state) ==
    LET t1 == [t EXCEPT
                 !.arm[a].visited_down = IF new_state = "down" THEN TRUE ELSE @,
                 !.arm[a].visited_transition = IF new_state = "transition" THEN TRUE ELSE @,
                 !.arm[a].visited_up = IF new_state = "up" THEN TRUE ELSE @]
        t2 == IF state = "down" /\ new_state = "transition"
              THEN [t1 EXCEPT !.arm[a].started_from_down = TRUE,
                              !.arm[a].reached_up_in_cycle = FALSE,
                              !.arm[a].descending_to_down = FALSE]
              ELSE t1
        t3 == IF new_state = "up"
              THEN [t2 EXCEPT !.arm[a].reached_up_in_cycle = TRUE]
              ELSE t2
        t4 == IF state = "up" /\ new_state = "transition" /\ t3.arm[a].reached_up_in_cycle
              THEN [t3 EXCEPT !.arm[a].descending_to_down = TRUE]
              ELSE t3
    IN t4

\* Lines 301-336: visited flags and ordered-sequence progress flags of a commit
\* state -> new_state.
TrackCommit(t, a, state, new_state) ==
    LET t1 == [t EXCEPT
                 !.arm[a].visited_down = IF new_state = "down" THEN TRUE ELSE @,
                 !.arm[a].visited_transition = IF new_state = "transition" THEN TRUE ELSE @,
                 !.arm[a].visited_up = IF new_state = "up" THEN TRUE ELSE @]
        t2 == IF state = "down" /\ new_state \in {"transition", "up"}
              THEN [t1 EXCEPT !.arm[a].started_from_down = TRUE,
                              !.arm[a].reached_up_in_cycle = FALSE,
                              !.arm[a].descending_to_down = FALSE]
              ELSE t1
        t3 == IF new_state = "up" /\ t2.arm[a].started_from_down
              THEN [t2 EXCEPT !.arm[a].reached_up_in_cycle = TRUE]
              ELSE t2
        t4 == IF state = "up" /\ new_state = "transition" /\ t3.arm[a].reached_up_in_cycle
              THEN [t3 EXCEPT !.arm[a].descending_to_down = TRUE]
              ELSE t3
    IN t4

\* Variant: the cycle start keeps rep_is_valid as the last close left it.
CycleStartMutKeepsValidity(t, a) ==
    [t EXCEPT !.arm[a].invalid_reasons = {},
              !.arm[a].min_angle_in_rep = None,
              !.arm[a].max_angle_in_rep = None,
              !.arm[a].visited_transition = FALSE,
              !.arm[a].visited_up = FALSE,
              !.arm[a].torso_violation_during_transition = FALSE,
              !.arm[a].torso_angles = <<>>]

\* Variant: the cycle start keeps the torso flag and the torso window.
CycleStartMutKeepsTorso(t, a) ==
    [t EXCEPT !.arm[a].rep_is_valid = TRUE,
              !.arm[a].invalid_reasons = {},
              !.arm[a].min_angle_in_rep = None,
              !.arm[a].max_angle_in_rep = None,
              !.arm[a].visited_transition = FALSE,
              !.arm[a].visited_up = FALSE]

\* Variant: the cycle start keeps the min/max angles.
CycleStartMutKeepsRom(t, a) ==
    [t EXCEPT !.arm[a].rep_is_valid = TRUE,
              !.arm[a].invalid_reasons = {},
              !.arm[a].visited_transition = FALSE,
              !.arm[a].visited_up = FALSE,
              !.arm[a].torso_violation_during_transition = FALSE,
              !.arm[a].torso_angles = <<>>]

\* Variant: the cycle start counts a rep.
CycleStartMutCounts(t, a) ==
    [IncrementRep(t, a) EXCEPT
              !.arm[a].rep_is_valid = TRUE,
              !.arm[a].invalid_reasons = {},
              !.arm[a].min_angle_in_rep = None,
              !.arm[a].max_angle_in_rep = None,
              !.arm[a].visited_transition = FALSE,
              !.arm[a].visited_up = FALSE,
              !.arm[a].torso_violation_during_transition = FALSE,
              !.arm[a].torso_angles = <<>>]

\* Lines 338-369: the start of a new rep cycle, DOWN -> TRANSITION or UP.
CycleStart(t, a) ==
    [t EXCEPT !.arm[a].rep_is_valid = TRUE,
              !.arm[a].invalid_reasons = {},
              !.arm[a].min_angle_in_rep = None,
              !.arm[a].max_angle_in_rep = None,
              !.arm[a].visited_transition = FALSE,
              !.arm[a].visited_up = FALSE,
              !.arm[a].torso_violation_during_transition = FALSE,
              !.arm[a].torso_angles = <<>>]

\* Lines 375-441: the reasons of a cycle close, rep_is_valid and
\* last_rep_reasons.
CloseReasons(t, a) ==
    LET x == t.arm[a]
        rom == IF x.min_angle_in_rep # None /\ x.max_angle_in_rep # None
               THEN x.max_angle_in_rep[1] - x.min_angle_in_rep[1]
               ELSE 0
    IN (IF ~x.visited_down THEN {"did_not_reach_down"} ELSE {})
       \cup (IF ~x.visited_transition THEN {"no_transition"} ELSE {})
       \cup (IF ~x.visited_up THEN {"did_not_reach_up"} ELSE {})
       \cup (IF x.torso_violation_during_transition THEN {"torso_exceeded"} ELSE {})
       \cup (IF t.min_rom_degrees > 0 /\ rom < t.min_rom_degrees
             THEN {"insufficient_rom"} ELSE {})

ValidateClose(t, a) ==
    LET rs == CloseReasons(t, a)
        valid == IF rs # {} THEN FALSE ELSE t.arm[a].rep_is_valid
    IN [t EXCEPT !.arm[a].invalid_reasons = rs,
                 !.arm[a].rep_is_valid = valid,
                 !.arm[a].last_rep_reasons =
                     IF ~valid THEN SortedReasons(rs) ELSE <<>>]

\* Variant: counts without the commit UP -> TRANSITION.
ShouldCountMutNoDescent(x) ==
    x.started_from_down /\ x.reached_up_in_cycle

\* Variant: counts every cycle that started from DOWN.
ShouldCountMutStartedOnly(x) ==
    x.started_from_down

\* Lines 443-450: should_count.
ShouldCount(x) ==
    x.started_from_down /\ x.reached_up_in_cycle /\ x.descending_to_down

\* Lines 371-475: the cycle close, (UP or TRANSITION) -> DOWN.
CycleClose(t, a) ==
    LET t1 == ValidateClose(t, a)
        t2 == IF ShouldCount(t1.arm[a])
              THEN [IncrementRep(t1, a) EXCEPT !.arm[a].cycle_index = @ + 1]
              ELSE t1
    IN [t2 EXCEPT !.arm[a].started_from_down = FALSE,
                  !.arm[a].reached_up_in_cycle = FALSE,
                  !.arm[a].descending_to_down = FALSE,
                  !.arm[a].angle_history = <<>>,
                  !.arm[a].torso_angles = <<>>]

\* Lines 251-255: ROM tracking on the raw angle.
TrackRom(t, a, angle) ==
    LET x == t.arm[a]
    IN IF x.min_angle_in_rep # None \/ x.state # "down"
       THEN [t EXCEPT
               !.arm[a].min_angle_in_rep =
                   IF @ = None THEN Some(angle) ELSE Some(Min2(@[1], angle)),
               !.arm[a].max_angle_in_rep =
                   IF @ = None THEN Some(angle) ELSE Some(Max2(@[1], angle))]
       ELSE t

\* Variant: a level is committed only while the arm is aligned.
UpdateArmStateMutFormGated(t, a, angle, current_time) ==
    LET state == t.arm[a].state
        t1 == [t EXCEPT !.arm[a].angle_history =
                           PushBounded(@, angle, history_length)]
        t2 == TrackRom(t1, a, angle)
        proposed == Proposed(angle)
        d == Dwell(state, t.arm[a].pending_state, t.arm[a].pending_since,
                   proposed, current_time)
    IN IF d.commit /\ ~t.arm[a].alignment_warning
       THEN LET new_state == proposed
                t3 == TrackCommit(t2, a, state, new_state)
                t4 == IF state = "down" /\ new_state \in {"transition", "up"}
                      THEN CycleStart(t3, a) ELSE t3
                t5 == IF state \in {"up", "transition"} /\ new_state = "down"
                      THEN CycleClose(t4, a) ELSE t4
            IN [t5 EXCEPT !.arm[a].state = new_state,
                          !.arm[a].pending_state = "none",
                          !.arm[a].pending_since = None]
       ELSE [t2 EXCEPT !.arm[a].pending_state = d.pending_state,
                       !.arm[a].pending_since = d.pending_since]

\* _update_arm_state(arm, angle, torso_angle, is_aligned, current_time)
UpdateArmState(t, a, angle, current_time) ==
    LET state == t.arm[a].state
        t1 == [t EXCEPT !.arm[a].angle_history =
                           PushBounded(@, angle, history_length)]
        t2 == TrackRom(t1, a, angle)
        proposed == Proposed(angle)
        d == Dwell(state, t.arm[a].pending_state, t.arm[a].pending_since,
                   proposed, current_time)
    IN IF d.commit
       THEN LET new_state == proposed
                t3 == TrackCommit(t2, a, state, new_state)
                t4 == IF state = "down" /\ new_state \in {"transition", "up"}
                      THEN CycleStart(t3, a) ELSE t3
                t5 == IF state \in {"up", "transition"} /\ new_state = "down"
                      THEN CycleClose(t4, a) ELSE t4
            IN [t5 EXCEPT !.arm[a].state = new_state,
                          !.arm[a].pending_state = "none",
                          !.arm[a].pending_since = None]
       ELSE [t2 EXCEPT !.arm[a].pending_state = d.pending_state,
                       !.arm[a].pending_since = d.pending_since]

\* Lines 217-221: an arm is evaluated only with an angle and visible.
Evaluated(in) == in.angle # None /\ in.visible

\* Variant: when both arms are evaluated the left arm takes the right arm's
\* pending level.
UpdateTrackerMutSharedPending(t, in, current_time) ==
    LET t1 == StoreVisibility(StoreVisibility(t, "left", in.left), "right", in.right)
        t2 == IF t1.arm["left"].state # "down"
              THEN UpdateViolationTimers(t1, "left", in.left.torso) ELSE t1
        t3 == IF t2.arm["right"].state # "down"
              THEN UpdateViolationTimers(t2, "right", in.right.torso) ELSE t2
        t4 == [t3 EXCEPT !.arm["left"].raw_angle = in.left.angle,
                         !.arm["right"].raw_angle = in.right.angle]
        t5 == IF Evaluated(in.left)
              THEN UpdateArmState(t4, "left", in.left.angle[1], current_time) ELSE t4
        t6 == IF Evaluated(in.right)
              THEN UpdateArmState(t5, "right", in.right.angle[1], current_time) ELSE t5
    IN IF Evaluated(in.left) /\ Evaluated(in.right)
       THEN [t6 EXCEPT !.arm["left"].pending_state = t6.arm["right"].pending_state,
                       !.arm["left"].pending_since = t6.arm["right"].pending_since]
       ELSE t6

\* Variant: an arm that is not evaluated loses its pending level.
UpdateTrackerMutGapClearsPending(t, in, current_time) ==
    LET t1 == StoreVisibility(StoreVisibility(t, "left", in.left), "right", in.right)
        t2 == IF t1.arm["left"].state # "down"
              THEN UpdateViolationTimers(t1, "left", in.left.torso) ELSE t1
        t3 == IF t2.arm["right"].state # "down"
              THEN UpdateViolationTimers(t2, "right", in.right.torso) ELSE t2
        t4 == [t3 EXCEPT !.arm["left"].raw_angle = in.left.angle,
                         !.arm["right"].raw_angle = in.right.angle]
        t5 == IF Evaluated(in.left)
              THEN UpdateArmState(t4, "left", in.left.angle[1], current_time)
              ELSE [t4 EXCEPT !.arm["left"].pending_state = "none",
                              !.arm["left"].pending_since = None]
        t6 == IF Evaluated(in.right)
              THEN UpdateArmState(t5, "right", in.right.angle[1], current_time)
              ELSE [t5 EXCEPT !.arm["right"].pending_state = "none",
                              !.arm["right"].pending_since = None]
    IN t6

\* update(...) with time.time() = current_time; in = [left |-> ..., right |-> ...]
UpdateTracker(t, in, current_time) ==
    LET t1 == StoreVisibility(StoreVisibility(t, "left", in.left), "right", in.right)
        t2 == IF t1.arm["left"].state # "down"
              THEN UpdateViolationTimers(t1, "left", in.left.torso) ELSE t1
        t3 == IF t2.arm["right"].state # "down"
              THEN UpdateViolationTimers(t2, "right", in.right.torso) ELSE t2
        t4 == [t3 EXCEPT !.arm["left"].raw_angle = in.left.angle,
                         !.arm["right"].raw_angle = in.right.angle]
        t5 == IF Evaluated(in.left)
              THEN UpdateArmState(t4, "left", in.left.angle[1], current_time) ELSE t4
        t6 == IF Evaluated(in.right)
              THEN UpdateArmState(t5, "right", in.right.angle[1], current_time) ELSE t5
    IN t6

\* get_status()
GetStatusOf(t) ==
    [ left_reps |-> t.arm["left"].reps,
      right_reps |-> t.arm["right"].reps,
      left_correct_reps |-> t.arm["left"].correct_reps,
      right_correct_reps |-> t.arm["right"].correct_reps,
      left_incorrect_reps |-> t.arm["left"].incorrect_reps,
      right_incorrect_reps |-> t.arm["right"].incorrect_reps,
      total_reps |-> t.total_reps,
      left_state |-> t.arm["left"].state,
      right_state |-> t.arm["right"].state,
      left_alignment_warning |-> t.arm["left"].alignment_warning,
      right_alignment_warning |-> t.arm["right"].alignment_warning,
      is_active |-> t.arm["left"].state # "unknown" \/ t.arm["right"].state # "unknown",
      left_last_rep_reasons |-> t.arm["left"].last_rep_reasons,
      right_last_rep_reasons |-> t.arm["right"].last_rep_reasons,
      left_raw_angle |-> t.arm["left"].raw_angle,
      right_raw_angle |-> t.arm["right"].raw_angle,
      left_smoothed_angle |-> Mean(t.arm["left"].angle_history),
      right_smoothed_angle |-> Mean(t.arm["right"].angle_history),
      left_cycle_index |-> t.arm["left"].cycle_index,
      right_cycle_index |-> t.arm["right"].cycle_index,
      left_arm_visible |-> t.arm["left"].arm_visible,
      right_arm_visible |-> t.arm["right"].arm_visible,
      left_avg_confidence |-> t.arm["left"].avg_confidence,
      right_avg_confidence |-> t.arm["right"].avg_confidence,
      left_visibility_message |-> t.arm["left"].visibility_message,
      right_visibility_message |-> t.arm["right"].visibility_message ]

\* Variant: reset leaves the torso windows and the cycle's min/max angles.
ResetTrackerMutKeepsWindow(t) ==
    [t EXCEPT
       !.total_reps = 0,
       !.arm = [a \in Arms |->
                  [InitArm EXCEPT
                     !.arm_visible = t.arm[a].arm_visible,
                     !.avg_confidence = t.arm[a].avg_confidence,
                     !.visibility_message = t.arm[a].visibility_message,
                     !.torso_angles = t.arm[a].torso_angles,
                     !.min_angle_in_rep = t.arm[a].min_angle_in_rep,
                     !.max_angle_in_rep = t.arm[a].max_angle_in_rep]]]

\* reset(): every attribute it assigns; the visibility echo, raw-angle and
\* min_rom_degrees attributes are the ones it leaves alone or clears as listed.
ResetTracker(t) ==
    [t EXCEPT
       !.total_reps = 0,
       !.arm = [a \in Arms |->
                  [InitArm EXCEPT
                     !.arm_visible = t.arm[a].arm_visible,
                     !.avg_confidence = t.arm[a].avg_confidence,
                     !.visibility_message = t.arm[a].visibility_message]]]

\* Variant: reading the snapshot clears the reason lists.
GetStatusCallMutClearsReasons(t) ==
    [trk |-> [t EXCEPT !.arm["left"].last_rep_reasons = <<>>,
                       !.arm["right"].last_rep_reasons = <<>>],
     ret |-> GetStatusOf(t)]

\* get_status() as a call: the tracker after it and the snapshot it returns.
GetStatusCall(t) == [trk |-> t, ret |-> GetStatusOf(t)]

\* ------------------------------------------------------- observation state
\* What the properties below need to remember about the run of tracker 1; none
\* of it is read by the tracker.  Per arm:
\*   cyc           committed levels since (and with) the level DOWN that the
\*                 most recent commit out of DOWN left; <<>> before any
\*   tw, viol      the torso samples (the last two) fed on the frames after that
\*                 commit, up to and with the frame of the next commit into
\*                 DOWN, and whether three consecutive ones of them averaged
\*                 above torso_angle_threshold
\*   pre           the arm's counters before the most recent update
\*   committedNow  the most recent update committed a level for the arm
\*   closedNow     ... and that commit went from UP or TRANSITION into DOWN
\*   lastEval      the most recent evaluated frame: the level it proposed, the
\*                 committed level before it, whether it committed, the time of
\*                 the first frame of its run (the consecutive evaluated frames
\*                 proposing this same level, different from the committed
\*                 one), and ripe: that first frame is min_hold_time or more ago
\*   prevEval      the evaluated frame before lastEval
InitGhostArm ==
    [ cyc |-> <<>>, tw |-> <<>>, viol |-> FALSE,
      pre |-> [reps |-> 0, correct_reps |-> 0, incorrect_reps |-> 0],
      committedNow |-> FALSE, closedNow |-> FALSE,
      lastEval |-> None, prevEval |-> None ]

InitGhost == [arm |-> [a \in Arms |-> InitGhostArm], preTotal |-> 0]

GhostEval(g, x, x2, in, now) ==
    LET p == Proposed(in.angle[1])
        cont == g.lastEval # None /\ g.lastEval[1].proposed = p
        start == IF p = x.state THEN None
                 ELSE IF cont THEN g.lastEval[1].runStart
                 ELSE Some(now)
    IN [proposed |-> p, before |-> x.state, commit |-> x2.state # x.state,
        runStart |-> start,
        ripe |-> start # None /\ now - start[1] >= min_hold_time]

GhostArmStep(g, x, x2, in, now) ==
    LET committed == x2.state # x.state
        closes == committed /\ x2.state = "down" /\ x.state \in {"up", "transition"}
        starts == committed /\ x.state = "down"
        active == g.cyc # <<>> /\ x.state # "down"
        w == Append(g.tw, in.torso)
    IN [ cyc |-> IF starts THEN <<"down", x2.state>>
                 ELSE IF committed /\ active THEN Append(g.cyc, x2.state)
                 ELSE IF committed THEN <<>>
                 ELSE g.cyc,
         tw |-> IF starts THEN <<>>
                ELSE IF active THEN (IF Len(w) > 2 THEN Tail(w) ELSE w)
                ELSE g.tw,
         viol |-> IF starts THEN FALSE
                  ELSE IF active
                  THEN g.viol \/ (Len(w) = 3 /\ SeqSum(w) > 3 * torso_angle_threshold)
                  ELSE g.viol,
         pre |-> [reps |-> x.reps, correct_reps |-> x.correct_reps,
                  incorrect_reps |-> x.incorrect_reps],
         committedNow |-> committed,
         closedNow |-> closes,
         lastEval |-> IF Evaluated(in) THEN Some(GhostEval(g, x, x2, in, now))
                      ELSE g.lastEval,
         prevEval |-> IF ~Evaluated(in) THEN g.prevEval
                      ELSE IF g.lastEval = None THEN None
                      ELSE Some([proposed |-> g.lastEval[1].proposed,
                                 before |-> g.lastEval[1].before,
                                 commit |-> g.lastEval[1].commit,
                                 ripe |-> g.lastEval[1].ripe]) ]

GhostStep(g, t, t2, in, now) ==
    [ arm |-> [a \in Arms |->
                 GhostArmStep(g.arm[a], t.arm[a], t2.arm[a],
                              IF a = "left" THEN in.left ELSE in.right, now)],
      preTotal |-> t.total_reps ]

\* ------------------------------------------------------------- frame inputs
ArmIn(angle, visible, torso, aligned, confidence) ==
    [angle |-> angle, visible |-> visible, torso |-> torso,
     aligned |-> aligned, confidence |-> confidence]

\* One raw angle inside each level's range.
LevelAngles == {170, 100, 40}
\* Raw angles at and next to the two thresholds.
EdgeAngles == {49, 50, 51, 159, 160, 161}
\* 45 degrees is above the torso threshold; the average of 45, 45, 0 is not.
TorsoAngles == {0, 45}

SeenInputs ==
    {ArmIn(Some(x), TRUE, ta, TRUE, 100) : x \in LevelAngles, ta \in TorsoAngles}

\* An arm without an angle, and an arm with an angle flagged not visible.
GatedInputs ==
    {ArmIn(None, TRUE, ta, TRUE, 100) : ta \in TorsoAngles}
      \cup {ArmIn(Some(100), FALSE, ta, TRUE, 30) : ta \in TorsoAngles}

ArmInputs == SeenInputs \cup GatedInputs

EdgeInputs == {ArmIn(Some(x), TRUE, 0, al, 100) : x \in EdgeAngles, al \in BOOLEAN}

\* The concrete scenario of the specification's section 8: the raw angle of
\* each frame and the time since the frame before, in ticks of 0.1 s
\* (t = 0.0, 0.3, 0.6, 1.0, 1.3 s).
ScenarioAngles == <<170, 100, 40, 90, 165>>
ScenarioGaps == <<0, 3, 3, 4, 3>>

ScenarioInputs(k) == {ArmIn(Some(ScenarioAngles[k]), TRUE, ta, TRUE, 100) : ta \in TorsoAngles}

\* The frames of a run: the camera sees the left arm only, the right arm only
\* (the other arm has no angle), or both arms moving alike.
Sides == {"left", "right", "both"}

Idle == ArmIn(None, TRUE, 0, TRUE, 100)

\* The runs explored.  env.angle is the pose of the last evaluated frame and
\* env.held how many consecutive evaluated frames showed it (counted to 2);
\* env.frames counts the update calls, env.gated the gated ones, and env.reset
\* tells that reset was called.
\*   "free"      any pose on any frame, seen or gated, frames 0.1 s or 0.2 s
\*               apart, the torso upright: FreeFrames frames
\*   "held"      every pose is held for two evaluated frames or more, frames
\*               are min_hold_time apart, the torso moves, at most MaxGated
\*               frames are gated: HeldFrames frames, and a reset ends the run
\*   "edge"      poses at the thresholds, frames min_hold_time apart:
\*               EdgeFrames frames
\*   "scenario"  the frames of the concrete scenario, any torso; a reset ends
\*               the run
\*   "long"      every pose is held for exactly two frames min_hold_time
\*               apart, so that every pose is committed, and the torso angle
\*               (env.torso) is the one of the first frame throughout:
\*               LongFrames frames, and a reset ends the run
Runs == {<<"free", "left">>, <<"free", "right">>, <<"held", "both">>,
         <<"edge", "left">>, <<"edge", "right">>,
         <<"scenario", "left">>, <<"scenario", "right">>,
         <<"long", "left">>, <<"long", "right">>}

InitEnv(m, sd) ==
    [mode |-> m, side |-> sd, angle |-> None, held |-> 0, frames |-> 0,
     gated |-> 0, reset |-> FALSE, torso |-> 0]

FrameLimit(e) ==
    CASE e.mode = "free" -> FreeFrames
      [] e.mode = "held" -> HeldFrames
      [] e.mode = "edge" -> EdgeFrames
      [] e.mode = "scenario" -> Len(ScenarioAngles)
      [] e.mode = "long" -> LongFrames

InputsOf(e) ==
    CASE e.mode \in {"free", "held"} -> ArmInputs
      [] e.mode = "long" -> SeenInputs
      [] e.mode = "edge" -> EdgeInputs
      [] e.mode = "scenario" -> ScenarioInputs(e.frames + 1)

\* time.time() between two update calls: 0.1 s or 0.2 s later, or as the
\* scenario says.
DtsOf(e) ==
    CASE e.mode = "free" -> {1, 2}
      [] e.mode \in {"held", "edge", "long"} -> {min_hold_time}
      [] e.mode = "scenario" -> {ScenarioGaps[e.frames + 1]}

EnvAllows(e, in) ==
    CASE e.mode = "free" -> in.torso = 0
      [] e.mode = "held" ->
           /\ Evaluated(in) => (e.angle = None \/ in.angle = e.angle \/ e.held >= 2)
           /\ ~Evaluated(in) => e.gated < MaxGated
      [] e.mode = "long" ->
           /\ e.frames > 0 => in.torso = e.torso
           /\ e.held = 1 => in.angle = e.angle
           /\ e.held = 2 => in.angle # e.angle
      [] OTHER -> TRUE

EnvStep(e, in) ==
    LET e1 == [e EXCEPT !.frames = @ + 1,
                        !.torso = IF e.mode = "long" THEN in.torso ELSE @]
    IN IF ~Evaluated(in) THEN [e1 EXCEPT !.gated = @ + 1]
       ELSE IF in.angle = e.angle THEN [e1 EXCEPT !.held = 2]
       ELSE [e1 EXCEPT !.angle = in.angle, !.held = 1]

EnvReset(e) ==
    IF e.mode \in {"held", "scenario", "long"}
    THEN [e EXCEPT !.frames = FrameLimit(e), !.reset = TRUE]
    ELSE [e EXCEPT !.reset = TRUE]

\* ------------------------------------------------------------------ actions
Init ==
    /\ trk = [c \in Copies |-> InitTracker]
    /\ clock = [c \in Copies |-> 0]
    /\ status = [c \in Copies |-> GetStatusOf(InitTracker)]
    /\ lastOp = "init"
    /\ env \in {InitEnv(r[1], r[2]) : r \in Runs}
    /\ ghost = InitGhost

\* update(): time.time() has advanced by dt ticks since the previous call.
Update(l, r, dt) ==
    LET now == clock[1] + dt
        in == [left |-> l, right |-> r]
        t2 == UpdateTracker(trk[1], in, now)
        call == GetStatusCall(t2)
    IN /\ trk' = [trk EXCEPT ![1] = call.trk]
       /\ clock' = [clock EXCEPT ![1] = now]
       /\ status' = [status EXCEPT ![1] = call.ret]
       /\ lastOp' = "update"
       /\ ghost' = GhostStep(ghost, trk[1], call.trk, in, now)

GetStatus ==
    LET call == GetStatusCall(trk[1])
    IN /\ trk' = [trk EXCEPT ![1] = call.trk]
       /\ status' = [status EXCEPT ![1] = call.ret]
       /\ lastOp' = "get_status"
       /\ UNCHANGED <<clock, env, ghost>>

Reset ==
    /\ trk' = [trk EXCEPT ![1] = ResetTracker(trk[1])]
    /\ lastOp' = "reset"
    /\ ghost' = InitGhost
    /\ env' = EnvReset(env)
    /\ UNCHANGED <<clock, status>>

UpdateAny ==
    /\ env.frames < FrameLimit(env)
    /\ \E in \in InputsOf(env), dt \in DtsOf(env) :
        /\ EnvAllows(env, in)
        /\ env' = EnvStep(env, in)
        /\ Update(IF env.side = "right" THEN Idle ELSE in,
                  IF env.side = "left" THEN Idle ELSE in, dt)

Next == UpdateAny \/ GetStatus \/ Reset

Spec == Init /\ [][Next]_vars

\* ------------------------------------------------- two trackers, one stream
\* Two trackers are fed the same frames of one arm (env.side) at the same
\* times.  Tracker 1 never gets the other arm: its angle is absent or it is
\* flagged not visible (env.other, the same on every frame of a run).  Tracker 2
\* gets any pose of the other arm.  Both arms' poses are held for two frames or
\* more, frames are min_hold_time apart, and the torso angle of the run is
\* env.torso.
OtherArm(a) == IF a = "left" THEN "right" ELSE "left"

Absent == ArmIn(None, TRUE, 0, TRUE, 100)
NotVisible == ArmIn(Some(40), FALSE, 0, TRUE, 30)

InitEnvPair(sd, ta, u) ==
    [mode |-> "pair", side |-> sd, torso |-> ta, other |-> u, angle |-> None,
     held |-> 0, angle2 |-> None, held2 |-> 0, frames |-> 0]

InitPair ==
    /\ trk = [c \in Copies |-> InitTracker]
    /\ clock = [c \in Copies |-> 0]
    /\ status = [c \in Copies |-> GetStatusOf(InitTracker)]
    /\ lastOp = "init"
    /\ env \in {InitEnvPair("left", 0, Absent), InitEnvPair("right", 45, NotVisible)}
    /\ ghost = InitGhost

\* A pose may change once it was held for two frames.
HoldAllows(angle, held, x) == angle = None \/ x = angle \/ held >= 2

UpdatePair ==
    /\ env.frames < PairFrames
    /\ \E x \in LevelAngles, y \in LevelAngles :
        LET now == clock[1] + min_hold_time
            u == env.other
            shared == ArmIn(Some(x), TRUE, env.torso, TRUE, 100)
            other == ArmIn(Some(y), TRUE, 0, TRUE, 100)
            in1 == IF env.side = "left" THEN [left |-> shared, right |-> u]
                   ELSE [left |-> u, right |-> shared]
            in2 == IF env.side = "left" THEN [left |-> shared, right |-> other]
                   ELSE [left |-> other, right |-> shared]
            c1 == GetStatusCall(UpdateTracker(trk[1], in1, now))
            c2 == GetStatusCall(UpdateTracker(trk[2], in2, now))
        IN /\ HoldAllows(env.angle, env.held, Some(x))
           /\ HoldAllows(env.angle2, env.held2, Some(y))
           /\ trk' = [c \in Copies |-> IF c = 1 THEN c1.trk ELSE c2.trk]
           /\ status' = [c \in Copies |-> IF c = 1 THEN c1.ret ELSE c2.ret]
           /\ clock' = [c \in Copies |-> now]
           /\ env' = [env EXCEPT
                        !.frames = @ + 1,
                        !.angle = Some(x),
                        !.held = IF env.angle = Some(x) THEN 2 ELSE 1,
                        !.angle2 = Some(y),
                        !.held2 = IF env.angle2 = Some(y) THEN 2 ELSE 1]
           /\ lastOp' = "update"
           /\ UNCHANGED ghost

NextPair == UpdatePair

SpecPair == InitPair /\ [][NextPair]_vars

\* --------------------------------------- two trackers, two form streams
\* Two trackers are fed the same raw angles and visibility of one arm
\* (env.side) at the same times, the other arm absent in both.  In a run of
\* kind "align" the two differ in the alignment flags only; in a run of kind
\* "torso" they differ in the alignment flags and the torso angles.  Every
\* pose is held for exactly two frames min_hold_time apart.
InitEnvForm(sd, k) ==
    [mode |-> "form", side |-> sd, kind |-> k, angle |-> None, held |-> 0,
     frames |-> 0]

InitForm ==
    /\ trk = [c \in Copies |-> InitTracker]
    /\ clock = [c \in Copies |-> 0]
    /\ status = [c \in Copies |-> GetStatusOf(InitTracker)]
    /\ lastOp = "init"
    /\ env \in {InitEnvForm(sd, k) : sd \in Arms, k \in {"align", "torso"}}
    /\ ghost = InitGhost

UpdateForm ==
    /\ env.frames < FormFrames
    /\ \E x \in LevelAngles, ta1 \in TorsoAngles, ta2 \in TorsoAngles,
          al1 \in BOOLEAN, al2 \in BOOLEAN :
        LET now == clock[1] + min_hold_time
            f1 == ArmIn(Some(x), TRUE, ta1, al1, 100)
            f2 == ArmIn(Some(x), TRUE, ta2, al2, 100)
            in1 == IF env.side = "left" THEN [left |-> f1, right |-> Absent]
                   ELSE [left |-> Absent, right |-> f1]
            in2 == IF env.side = "left" THEN [left |-> f2, right |-> Absent]
                   ELSE [left |-> Absent, right |-> f2]
            c1 == GetStatusCall(UpdateTracker(trk[1], in1, now))
            c2 == GetStatusCall(UpdateTracker(trk[2], in2, now))
        IN /\ env.kind = "align" => ta1 = ta2
           /\ env.held = 1 => Some(x) = env.angle
           /\ env.held = 2 => Some(x) # env.angle
           /\ trk' = [c \in Copies |-> IF c = 1 THEN c1.trk ELSE c2.trk]
           /\ status' = [c \in Copies |-> IF c = 1 THEN c1.ret ELSE c2.ret]
           /\ clock' = [c \in Copies |-> now]
           /\ env' = [env EXCEPT
                        !.frames = @ + 1,
                        !.angle = Some(x),
                        !.held = IF env.angle = Some(x) THEN 2 ELSE 1]
           /\ lastOp' = "update"
           /\ UNCHANGED ghost

NextForm == UpdateForm

SpecForm == InitForm /\ [][NextForm]_vars

\* ------------------------------------------- one tracker, cycle by cycle
\* One tracker is fed frames of one arm (env.side), the other arm absent, every
\* pose held for exactly two evaluated frames min_hold_time apart.  In a run of
\* kind "torso" the torso angle of each frame is 0, 45 or, on at most
\* MaxMissing frames, the sentinel of missing landmarks, and at most MaxGated
\* frames carry no arm angle.  In a run of kind "rom" the caller has assigned
\* MinRom to the attribute min_rom_degrees after construction (the constructor
\* stores 0), the torso is upright and the arm bends to 40 or to 45 degrees.
\* Next to the observations of ghost.arm, ghost.obs keeps for each arm
\*   sample      the torso angle of the last frame
\*   preFlag     torso_violation_during_transition before the last update
\*   preWindow   torso_angles before the last update
\*   missing     the sentinel came on a frame of the cycle (a frame of a cycle
\*               is one after the cycle-start commit, up to the closing one)
\*   rng         the raw angles of the evaluated frames of the cycle
\*   seen        the raw angles of the evaluated frames since the last close
MinRom == 130
RomAngles == {170, 100, 40, 45}

InitObsArm ==
    [sample |-> 0, preFlag |-> FALSE, preWindow |-> <<>>, missing |-> FALSE,
     rng |-> {}, seen |-> <<>>]

ObsArmStep(o, g, x, x2, in) ==
    LET committed == x2.state # x.state
        closes == committed /\ x2.state = "down" /\ x.state \in {"up", "transition"}
        starts == committed /\ x.state = "down"
        active == g.cyc # <<>> /\ x.state # "down"
    IN [ sample |-> in.torso,
         preFlag |-> x.torso_violation_during_transition,
         preWindow |-> x.torso_angles,
         missing |-> IF starts THEN FALSE
                     ELSE IF active THEN o.missing \/ in.torso = MissingTorso
                     ELSE o.missing,
         rng |-> IF starts THEN {}
                 ELSE IF active /\ Evaluated(in) THEN o.rng \cup {in.angle[1]}
                 ELSE o.rng,
         seen |-> IF closes THEN <<>>
                  ELSE IF Evaluated(in) THEN Append(o.seen, in.angle[1])
                  ELSE o.seen ]

InitEnvCycle(sd, k) ==
    [mode |-> "cycle", side |-> sd, kind |-> k, angle |-> None, held |-> 0,
     frames |-> 0, gated |-> 0, missing |-> 0]

InitCycle ==
    /\ env \in {InitEnvCycle(sd, k) : sd \in Arms, k \in {"torso", "rom"}}
    /\ trk = [c \in Copies |->
                [InitTracker EXCEPT !.min_rom_degrees =
                                       IF env.kind = "rom" THEN MinRom ELSE 0]]
    /\ clock = [c \in Copies |-> 0]
    /\ status = [c \in Copies |-> GetStatusOf(trk[c])]
    /\ lastOp = "init"
    /\ ghost = [arm |-> InitGhost.arm, preTotal |-> 0,
                obs |-> [a \in Arms |-> InitObsArm]]

CycleInputs(e) ==
    IF e.kind = "rom"
    THEN {ArmIn(Some(x), TRUE, 0, TRUE, 100) : x \in RomAngles}
    ELSE {ArmIn(x, TRUE, ta, TRUE, 100) :
            x \in {Some(y) : y \in LevelAngles} \cup {None},
            ta \in TorsoAngles \cup {MissingTorso}}

CycleAllows(e, in) ==
    /\ e.frames < (IF e.kind = "rom" THEN RomFrames ELSE TorsoFrames)
    /\ in.torso = MissingTorso => e.missing < MaxMissing
    /\ ~Evaluated(in) => e.gated < MaxGated
    /\ Evaluated(in) /\ e.held = 1 => in.angle = e.angle
    /\ Evaluated(in) /\ e.held = 2 => in.angle # e.angle

UpdateCycle ==
    \E f \in CycleInputs(env) :
        LET now == clock[1] + min_hold_time
            in == IF env.side = "left" THEN [left |-> f, right |-> Absent]
                  ELSE [left |-> Absent, right |-> f]
            call == GetStatusCall(UpdateTracker(trk[1], in, now))
            base == GhostStep(ghost, trk[1], call.trk, in, now)
        IN /\ CycleAllows(env, f)
           /\ trk' = [trk EXCEPT ![1] = call.trk]
           /\ status' = [status EXCEPT ![1] = call.ret]
           /\ clock' = [clock EXCEPT ![1] = now]
           /\ env' = [env EXCEPT
                        !.frames = @ + 1,
                        !.gated = IF Evaluated(f) THEN @ ELSE @ + 1,
                        !.missing = IF f.torso = MissingTorso THEN @ + 1 ELSE @,
                        !.angle = IF Evaluated(f) THEN f.angle ELSE @,
                        !.held = IF ~Evaluated(f) THEN @
                                 ELSE IF env.angle = f.angle THEN 2 ELSE 1]
           /\ lastOp' = "update"
           /\ ghost' = [arm |-> base.arm, preTotal |-> base.preTotal,
                        obs |-> [a \in Arms |->
                                   ObsArmStep(ghost.obs[a], ghost.arm[a],
                                              trk[1].arm[a], call.trk.arm[a],
                                              IF a = "left" THEN in.left ELSE in.right)]]

NextCycle == UpdateCycle

SpecCycle == InitCycle /\ [][NextCycle]_vars

\* ----------------------------------- two trackers, two execution schedules
\* Two trackers are fed the same frames of one arm (env.side), one frame after
\* the other, the other arm absent.  update takes no timestamp: each tracker
\* reads time.time() when its own call runs (line 152), ExecGaps after its
\* previous call, whatever the time of the frame in its source.
ExecGaps == {1, 2}

InitEnvClock(sd) == [mode |-> "clock", side |-> sd, frames |-> 0]

InitClock ==
    /\ trk = [c \in Copies |-> InitTracker]
    /\ clock = [c \in Copies |-> 0]
    /\ status = [c \in Copies |-> GetStatusOf(InitTracker)]
    /\ lastOp = "init"
    /\ env \in {InitEnvClock(sd) : sd \in Arms}
    /\ ghost = InitGhost

UpdateClock ==
    /\ env.frames < ClockFrames
    /\ \E x \in LevelAngles, d1 \in ExecGaps, d2 \in ExecGaps :
        LET f == ArmIn(Some(x), TRUE, 0, TRUE, 100)
            in == IF env.side = "left" THEN [left |-> f, right |-> Absent]
                  ELSE [left |-> Absent, right |-> f]
            c1 == GetStatusCall(UpdateTracker(trk[1], in, clock[1] + d1))
            c2 == GetStatusCall(UpdateTracker(trk[2], in, clock[2] + d2))
        IN /\ trk' = [c \in Copies |-> IF c = 1 THEN c1.trk ELSE c2.trk]
           /\ status' = [c \in Copies |-> IF c = 1 THEN c1.ret ELSE c2.ret]
           /\ clock' = [c \in Copies |-> IF c = 1 THEN clock[1] + d1 ELSE clock[2] + d2]
           /\ env' = [env EXCEPT !.frames = @ + 1]
           /\ lastOp' = "update"
           /\ UNCHANGED ghost

NextClock == UpdateClock

SpecClock == InitClock /\ [][NextClock]_vars

\* --------------------------------------------- the timeline and its reps
\* rep_aggregator._detect_reps_for_arm on the level column of one arm: states
\* is the column (one committed level per frame), positions count from 1.
\* JumpTo(states, i) is the position of the first "down" after i, or 0.
JumpTo(states, i) ==
    LET D == {j \in (i + 1)..Len(states) : states[j] = "down"}
    IN IF D = {} THEN 0 ELSE CHOOSE j \in D : \A k \in D : j <= k

\* The first "up" between the start and the closing "down", or 0.
FirstUp(states, i, end_idx) ==
    LET U == {j \in (i + 1)..(end_idx - 1) : states[j] = "up"}
    IN IF U = {} THEN 0 ELSE CHOOSE j \in U : \A k \in U : j <= k

\* Variant: a cycle that reached UP needs no TRANSITION after it.
HadTransitionAfterUpMutAlways(states, first_up_idx, end_idx) == TRUE

\* any(s == "transition" for s in states[first_up_idx:end_idx])
HadTransitionAfterUp(states, first_up_idx, end_idx) ==
    \E j \in first_up_idx..(end_idx - 1) : states[j] = "transition"

RECURSIVE DetectFrom(_, _, _)
DetectFrom(states, i, reps) ==
    IF i >= Len(states) THEN reps
    ELSE IF states[i] = "down" /\ states[i + 1] \in {"transition", "up"}
    THEN LET end_idx == JumpTo(states, i)
             first_up_idx == FirstUp(states, i, end_idx)
         IN IF end_idx = 0 THEN DetectFrom(states, i + 1, reps)
            ELSE IF first_up_idx = 0 THEN DetectFrom(states, end_idx, reps)
            ELSE IF ~HadTransitionAfterUp(states, first_up_idx, end_idx)
            THEN DetectFrom(states, end_idx, reps)
            ELSE IF end_idx - i + 1 <= 1 THEN DetectFrom(states, end_idx, reps)
            ELSE DetectFrom(states, end_idx + 1,
                            Append(reps, [start_idx |-> i, end_idx |-> end_idx]))
    ELSE DetectFrom(states, i + 1, reps)

\* The rep windows [start_idx, end_idx] found in the column.
DetectRepsForArm(states) == DetectFrom(states, 1, <<>>)

\* frame_csv_extractor: one tracker is fed the frames of a video, one arm
\* moving (env.side), and after each frame a row with both committed levels of
\* get_status is appended to the timeline (ghost.rows).  A pose is held for two
\* evaluated frames min_hold_time apart; on at most MaxOdd frames of a run the
\* pose changes after a single frame or the arm has no angle.
InitEnvRows(sd) ==
    [mode |-> "rows", side |-> sd, angle |-> None, held |-> 0, frames |-> 0,
     odd |-> 0]

InitRows ==
    /\ trk = [c \in Copies |-> InitTracker]
    /\ clock = [c \in Copies |-> 0]
    /\ status = [c \in Copies |-> GetStatusOf(InitTracker)]
    /\ lastOp = "init"
    /\ env \in {InitEnvRows(sd) : sd \in Arms}
    /\ ghost = [arm |-> InitGhost.arm, preTotal |-> 0,
                rows |-> [a \in Arms |-> <<>>]]

RowInputs == {ArmIn(x, TRUE, 0, TRUE, 100) : x \in {Some(y) : y \in LevelAngles} \cup {None}}

\* The frame is an odd one: no angle, or a pose given up after one frame.
OddFrame(e, f) == ~Evaluated(f) \/ (e.held = 1 /\ f.angle # e.angle)

UpdateRows ==
    /\ env.frames < RowFrames
    /\ \E f \in RowInputs :
        LET now == clock[1] + min_hold_time
            in == IF env.side = "left" THEN [left |-> f, right |-> Absent]
                  ELSE [left |-> Absent, right |-> f]
            call == GetStatusCall(UpdateTracker(trk[1], in, now))
            base == GhostStep(ghost, trk[1], call.trk, in, now)
        IN /\ OddFrame(env, f) => env.odd < MaxOdd
           /\ Evaluated(f) /\ env.held = 2 => f.angle # env.angle
           /\ trk' = [trk EXCEPT ![1] = call.trk]
           /\ status' = [status EXCEPT ![1] = call.ret]
           /\ clock' = [clock EXCEPT ![1] = now]
           /\ env' = [env EXCEPT
                        !.frames = @ + 1,
                        !.odd = IF OddFrame(env, f) THEN @ + 1 ELSE @,
                        !.angle = IF Evaluated(f) THEN f.angle ELSE @,
                        !.held = IF ~Evaluated(f) THEN @
                                 ELSE IF env.angle = f.angle THEN 2 ELSE 1]
           /\ lastOp' = "update"
           /\ ghost' = [arm |-> base.arm, preTotal |-> base.preTotal,
                        rows |-> [a \in Arms |->
                                    Append(ghost.rows[a],
                                           IF a = "left" THEN call.ret.left_state
                                           ELSE call.ret.right_state)]]

NextRows == UpdateRows

SpecRows == InitRows /\ [][NextRows]_vars

\* ------------------------------------------------------------- properties
Counted(a) == trk[1].arm[a].reps = ghost.arm[a].pre.reps + 1

CountersUnchanged(a) ==
    /\ trk[1].arm[a].reps = ghost.arm[a].pre.reps
    /\ trk[1].arm[a].correct_reps = ghost.arm[a].pre.correct_reps
    /\ trk[1].arm[a].incorrect_reps = ghost.arm[a].pre.incorrect_reps

InSeq(x, s) == \E i \in 1..Len(s) : s[i] = x

\* The committed levels c hold a commit into UP followed at once by a commit
\* UP -> TRANSITION.
UpThenTransition(c) ==
    \E i \in 1..(Len(c) - 1) : c[i] = "up" /\ c[i + 1] = "transition"

FullCycle == <<"down", "transition", "up", "transition", "down">>

PendingCleared(a) ==
    trk[1].arm[a].pending_state = "none" /\ trk[1].arm[a].pending_since = None

\* C1: for either arm, when the committed levels are DOWN, TRANSITION, UP,
\* TRANSITION, DOWN, no 3-sample torso average exceeded the threshold while the
\* cycle was active and min ROM is disabled, the final commit into DOWN raises
\* the arm's rep counter and its correct counter by exactly 1 and leaves its
\* incorrect counter unchanged.
C1_FullCycleCountsCorrect ==
    \A a \in Arms :
        ( /\ ghost.arm[a].closedNow
          /\ ghost.arm[a].cyc = FullCycle
          /\ ~ghost.arm[a].viol
          /\ trk[1].min_rom_degrees = 0 )
        => /\ trk[1].arm[a].reps = ghost.arm[a].pre.reps + 1
           /\ trk[1].arm[a].correct_reps = ghost.arm[a].pre.correct_reps + 1
           /\ trk[1].arm[a].incorrect_reps = ghost.arm[a].pre.incorrect_reps

C1_Witness ==
    \E a \in Arms :
        /\ ghost.arm[a].closedNow
        /\ ghost.arm[a].cyc = FullCycle
        /\ ~ghost.arm[a].viol
        /\ InSeq(45, ghost.arm[a].tw)
        /\ trk[1].arm[a].correct_reps = 1

C3_BounceNotCounted ==
    \A a \in Arms :
        (ghost.arm[a].closedNow /\ ghost.arm[a].cyc = <<"down", "transition", "down">>)
        => CountersUnchanged(a) /\ trk[1].total_reps = ghost.preTotal

C3_Witness ==
    \E a \in Arms :
        /\ ghost.arm[a].closedNow
        /\ ghost.arm[a].cyc = <<"down", "transition", "down">>

\* The case of C4: the frame before the most recent evaluated frame of arm a
\* proposed a level different from the level committed then, and the most
\* recent one proposes that committed level again.
SpikeReverted(a) ==
    /\ ghost.arm[a].prevEval # None
    /\ ghost.arm[a].lastEval # None
    /\ ghost.arm[a].prevEval[1].proposed # ghost.arm[a].prevEval[1].before
    /\ ghost.arm[a].lastEval[1].proposed = ghost.arm[a].prevEval[1].before

NoCommitOnEither(a) ==
    /\ ~ghost.arm[a].prevEval[1].commit
    /\ ~ghost.arm[a].lastEval[1].commit
    /\ PendingCleared(a)

\* C4 as stated: if one evaluated frame proposes a level different from the
\* committed level and the next evaluated frame proposes the committed level
\* again, no commit happens on either frame and the pending level is cleared.
C4_Original ==
    \A a \in Arms : SpikeReverted(a) => NoCommitOnEither(a)

\* C4, amended: the same, provided the first of the two frames does not itself
\* complete the dwell of a run of frames proposing its level that began
\* min_hold_time or more before it.
C4_SpikeNeverCommits ==
    \A a \in Arms :
        (SpikeReverted(a) /\ ~ghost.arm[a].prevEval[1].ripe) => NoCommitOnEither(a)

C4_Witness ==
    \E a \in Arms :
        /\ SpikeReverted(a)
        /\ ~ghost.arm[a].prevEval[1].ripe
        /\ ghost.arm[a].prevEval[1].before = "down"
        /\ ghost.arm[a].prevEval[1].proposed = "up"
        /\ trk[1].arm[a].state = "down"

\* C5: while consecutive evaluated frames of an arm propose the same level L
\* different from the committed level, the pending start time stays at the
\* first such frame, and L is committed on exactly the first of those frames
\* that is min_hold_time or more after that first frame; the commit sets the
\* level to L and clears the pending level and time.
C5_DwellFromFirstFrame ==
    \A a \in Arms :
        LET g == ghost.arm[a] x == trk[1].arm[a]
        IN (g.lastEval # None /\ g.lastEval[1].proposed # g.lastEval[1].before)
           => /\ g.lastEval[1].commit <=> g.lastEval[1].ripe
              /\ g.lastEval[1].commit
                  => x.state = g.lastEval[1].proposed /\ PendingCleared(a)
              /\ ~g.lastEval[1].commit
                  => /\ x.state = g.lastEval[1].before
                     /\ x.pending_state = g.lastEval[1].proposed
                     /\ x.pending_since = g.lastEval[1].runStart

\* A run of three frames 0.1 s apart: the third one commits.
C5_Witness ==
    \E a \in Arms :
        LET g == ghost.arm[a]
        IN /\ g.lastEval # None /\ g.prevEval # None
           /\ g.lastEval[1].commit
           /\ g.lastEval[1].proposed = g.prevEval[1].proposed
           /\ g.lastEval[1].before = g.prevEval[1].before
           /\ ~g.prevEval[1].ripe
           /\ g.lastEval[1].runStart = Some(clock[1] - 2)
           /\ trk[1].arm[a].raw_angle # None

\* C6: if the 3-sample rolling torso average of an arm exceeds the threshold on
\* any frame between the cycle-start commit and the cycle-close commit of a
\* counted cycle, the rep is counted as incorrect and its reason list holds the
\* torso reason, even when the torso samples near the close are below the
\* threshold.
C6_TorsoViolationSticky ==
    \A a \in Arms :
        (ghost.arm[a].closedNow /\ Counted(a) /\ ghost.arm[a].viol)
        => /\ trk[1].arm[a].incorrect_reps = ghost.arm[a].pre.incorrect_reps + 1
           /\ trk[1].arm[a].correct_reps = ghost.arm[a].pre.correct_reps
           /\ InSeq("torso_exceeded", trk[1].arm[a].last_rep_reasons)

C6_Witness ==
    \E a \in Arms :
        /\ ghost.arm[a].closedNow /\ Counted(a) /\ ghost.arm[a].viol
        /\ ghost.arm[a].tw = <<0, 0>>
        /\ InSeq("torso_exceeded", trk[1].arm[a].last_rep_reasons)

\* The most recent update evaluated arm a with raw angle x: the level L that x
\* proposes is then the committed level with nothing pending, or the pending
\* level.
ProposedIs(a, L) ==
    \/ trk[1].arm[a].state = L /\ trk[1].arm[a].pending_state = "none"
    \/ trk[1].arm[a].state # L /\ trk[1].arm[a].pending_state = L

JustEvaluated(a) ==
    lastOp = "update" /\ trk[1].arm[a].arm_visible /\ trk[1].arm[a].raw_angle # None

\* C7 as stated: the proposed level is DOWN at or above angle_threshold_down,
\* UP at or below angle_threshold_up, TRANSITION otherwise.
C7_Original ==
    \A a \in Arms :
        JustEvaluated(a)
        => LET x == trk[1].arm[a].raw_angle[1]
           IN ProposedIs(a, IF x >= angle_threshold_down THEN "down"
                            ELSE IF x <= angle_threshold_up THEN "up"
                            ELSE "transition")

\* C7, amended: the proposed level is DOWN strictly above angle_threshold_down,
\* UP strictly below angle_threshold_up, and TRANSITION otherwise, the two
\* thresholds themselves included.
C7_StrictThresholds ==
    \A a \in Arms :
        JustEvaluated(a)
        => LET x == trk[1].arm[a].raw_angle[1]
           IN ProposedIs(a, IF x > angle_threshold_down THEN "down"
                            ELSE IF x < angle_threshold_up THEN "up"
                            ELSE "transition")

C7_Witness ==
    \E a \in Arms :
        /\ JustEvaluated(a)
        /\ trk[1].arm[a].raw_angle = Some(angle_threshold_down)
        /\ trk[1].arm[a].state = "transition"

\* The concrete scenario has been fed up to its last frame to a freshly
\* constructed tracker.
ScenarioDone ==
    env.mode = "scenario" /\ env.frames = Len(ScenarioAngles) /\ ~env.reset

ScenarioArms == IF env.side = "both" THEN Arms ELSE {env.side}

\* C8 as stated: with thresholds 160 and 50 and min_hold_time 0.2 s, frames at
\* t = 0.0 (170), 0.3 (100), 0.6 (40), 1.0 (90), 1.3 (165) fed to a fresh
\* tracker end with exactly one counted rep, correct without torso violation.
C8_Original ==
    ScenarioDone
    => \A a \in ScenarioArms :
          /\ trk[1].arm[a].reps = 1
          /\ ~trk[1].arm[a].torso_violation_during_transition
              => trk[1].arm[a].correct_reps = 1

\* C8, amended: no frame of the scenario commits a level, as no two
\* consecutive frames propose the same level: each frame only starts a pending
\* level, the arm stays UNKNOWN and the scenario ends with no counted rep.
C8_ScenarioCommitsNothing ==
    (env.mode = "scenario" /\ ~env.reset)
    => \A a \in ScenarioArms :
          /\ trk[1].arm[a].state = "unknown"
          /\ trk[1].arm[a].reps = 0
          /\ trk[1].total_reps = 0
          /\ env.frames >= 1
              => /\ trk[1].arm[a].pending_state
                      = (<<"down", "transition", "up", "transition", "down">>)[env.frames]
                 /\ trk[1].arm[a].pending_since = Some(clock[1])

C8_Witness ==
    /\ ScenarioDone
    /\ \E a \in ScenarioArms :
          /\ trk[1].arm[a].pending_state = "down"
          /\ trk[1].arm[a].pending_since = Some(13)
          /\ trk[1].arm[a].reps = 0

\* C10: get_status changes no tracker state, and a get_status call that follows
\* a get_status call (update ends with one) with no update or reset between
\* returns the same snapshot.
C10_GetStatusIdempotent ==
    [][lastOp' = "get_status"
         => /\ trk' = trk
            /\ lastOp \in {"get_status", "update"} => status' = status]_vars

C10_Witness ==
    /\ lastOp = "get_status"
    /\ status[1] = GetStatusOf(trk[1])
    /\ status[1].total_reps > 0
    /\ status[1].left_last_rep_reasons # <<>>

\* C9: when one arm is unavailable (angle absent or not visible) on every
\* frame, its rep, correct and incorrect counters stay 0, and the other arm's
\* committed level and counters are those the same stream of that arm produces
\* in a tracker that is given any input for the first arm.
C9_SidesIndependent ==
    env.mode = "pair"
    => LET s == env.side
           o == OtherArm(env.side)
       IN /\ trk[1].arm[o].reps = 0
          /\ trk[1].arm[o].correct_reps = 0
          /\ trk[1].arm[o].incorrect_reps = 0
          /\ trk[1].arm[o].state = "unknown"
          /\ trk[1].arm[s].state = trk[2].arm[s].state
          /\ trk[1].arm[s].reps = trk[2].arm[s].reps
          /\ trk[1].arm[s].correct_reps = trk[2].arm[s].correct_reps
          /\ trk[1].arm[s].incorrect_reps = trk[2].arm[s].incorrect_reps
          /\ trk[1].arm[s].last_rep_reasons = trk[2].arm[s].last_rep_reasons

\* The shared arm has completed a rep in both trackers while the other arm
\* completed one in tracker 2 only.
C9_Witness ==
    /\ env.mode = "pair"
    /\ trk[1].arm[env.side].reps = 1
    /\ trk[1].total_reps = 1
    /\ trk[2].arm[OtherArm(env.side)].reps = 1
    /\ trk[2].total_reps = 2
    /\ trk[1].arm[env.side].incorrect_reps = 1
    /\ ~trk[1].arm[OtherArm(env.side)].arm_visible

\* The attributes of an arm that C11 names.
SessionFields(x) ==
    [ reps |-> x.reps, correct_reps |-> x.correct_reps,
      incorrect_reps |-> x.incorrect_reps,
      state |-> x.state, pending_state |-> x.pending_state,
      pending_since |-> x.pending_since,
      angle_history |-> x.angle_history, torso_angles |-> x.torso_angles,
      min_angle_in_rep |-> x.min_angle_in_rep,
      max_angle_in_rep |-> x.max_angle_in_rep,
      visited_down |-> x.visited_down,
      visited_transition |-> x.visited_transition,
      visited_up |-> x.visited_up,
      started_from_down |-> x.started_from_down,
      reached_up_in_cycle |-> x.reached_up_in_cycle,
      descending_to_down |-> x.descending_to_down,
      torso_violation_during_transition |-> x.torso_violation_during_transition,
      rep_is_valid |-> x.rep_is_valid,
      invalid_reasons |-> x.invalid_reasons,
      last_rep_reasons |-> x.last_rep_reasons ]

\* C11: after reset(), from any reachable state, every counter, both committed
\* levels, both pending levels and times, both angle histories, both torso
\* windows, the min/max angles and every per-cycle flag and reason set equal
\* the values of a freshly constructed tracker.
C11_ResetRestoresFresh ==
    lastOp = "reset"
    => /\ trk[1].total_reps = InitTracker.total_reps
       /\ \A a \in Arms : SessionFields(trk[1].arm[a]) = SessionFields(InitArm)

\* reset() was called on a tracker whose last snapshot showed a counted,
\* incorrect rep and a committed level.
C11_Witness ==
    /\ lastOp = "reset"
    /\ status[1].total_reps > 0
    /\ status[1].left_state = "down"
    /\ status[1].left_last_rep_reasons # <<>>

\* C12: in every reachable state total_reps equals left_reps + right_reps,
\* also after a frame on which both arms close a counted cycle and after reset.
C12_TotalIsSum ==
    trk[1].total_reps = trk[1].arm["left"].reps + trk[1].arm["right"].reps

\* Both arms closed a counted cycle on the most recent frame.
C12_Witness ==
    /\ lastOp = "update"
    /\ \A a \in Arms : ghost.arm[a].closedNow /\ Counted(a)
    /\ trk[1].total_reps = 2
    /\ ghost.preTotal = 0

\* C13: a counted rep is added to the arm's correct counter exactly when the
\* reason set built at that cycle close is empty and to its incorrect counter
\* exactly when it is not; the validity used is never a value left from an
\* earlier cycle.
C13_CorrectIffNoReasons ==
    \A a \in Arms :
        (ghost.arm[a].closedNow /\ Counted(a))
        => LET x == trk[1].arm[a]
               clean == x.invalid_reasons = {}
           IN /\ x.correct_reps = ghost.arm[a].pre.correct_reps + (IF clean THEN 1 ELSE 0)
              /\ x.incorrect_reps = ghost.arm[a].pre.incorrect_reps + (IF clean THEN 0 ELSE 1)
              /\ x.rep_is_valid <=> clean

\* A rep without reasons is counted correct after an earlier rep of the arm
\* was closed with reasons.
C13_Witness ==
    \E a \in Arms :
        /\ ghost.arm[a].closedNow /\ Counted(a)
        /\ trk[1].arm[a].invalid_reasons = {}
        /\ ghost.arm[a].pre.incorrect_reps = 1
        /\ trk[1].arm[a].correct_reps = 1

\* C14: in every reachable state, for each arm, reps = correct_reps +
\* incorrect_reps, and no counter is negative.
C14_RepsSplit ==
    /\ trk[1].total_reps >= 0
    /\ \A a \in Arms :
          LET x == trk[1].arm[a]
          IN /\ x.reps = x.correct_reps + x.incorrect_reps
             /\ x.reps >= 0 /\ x.correct_reps >= 0 /\ x.incorrect_reps >= 0

C14_Witness ==
    \E a \in Arms :
        /\ trk[1].arm[a].reps = 2
        /\ trk[1].arm[a].correct_reps = 1
        /\ trk[1].arm[a].incorrect_reps = 1

\* The seven counters of a tracker.
Counters(t) ==
    <<t.total_reps,
      t.arm["left"].reps, t.arm["left"].correct_reps, t.arm["left"].incorrect_reps,
      t.arm["right"].reps, t.arm["right"].correct_reps, t.arm["right"].incorrect_reps>>

ArmCounters(x) == <<x.reps, x.correct_reps, x.incorrect_reps>>

\* C15: an update changes a counter only for an arm that commits from UP or
\* TRANSITION into DOWN on that frame; every other update leaves all seven
\* counters unchanged, an update raises an arm's rep counter by at most 1, and
\* counters never decrease except through reset.
C15_CountersChangeOnlyAtClose ==
    [][/\ lastOp' = "update"
          => /\ \A a \in Arms :
                  LET x == trk[1].arm[a]
                      y == trk'[1].arm[a]
                      closes == x.state \in {"up", "transition"} /\ y.state = "down"
                  IN /\ ~closes => ArmCounters(y) = ArmCounters(x)
                     /\ y.reps \in {x.reps, x.reps + 1}
             /\ (\A a \in Arms :
                    ~(trk[1].arm[a].state \in {"up", "transition"}
                        /\ trk'[1].arm[a].state = "down"))
                 => Counters(trk'[1]) = Counters(trk[1])
       /\ lastOp' # "reset"
          => \A i \in 1..7 : Counters(trk'[1])[i] >= Counters(trk[1])[i]]_vars

\* One arm closed a counted cycle on the most recent frame, the other arm
\* did not commit.
C15_Witness ==
    \E a \in Arms :
        /\ lastOp = "update"
        /\ ghost.arm[a].closedNow /\ Counted(a)
        /\ ~ghost.arm[OtherArm(a)].committedNow
        /\ trk[1].total_reps = ghost.preTotal + 1

\* The most recent update got no angle for the arm or got it flagged not
\* visible (update stores both inputs as they came).
GatedOut(x) == x.raw_angle = None \/ ~x.arm_visible

\* The attributes of an arm that C16 names.
EvaluationFields(x) ==
    [ state |-> x.state, pending_state |-> x.pending_state,
      pending_since |-> x.pending_since, angle_history |-> x.angle_history,
      min_angle_in_rep |-> x.min_angle_in_rep,
      max_angle_in_rep |-> x.max_angle_in_rep,
      started_from_down |-> x.started_from_down,
      reached_up_in_cycle |-> x.reached_up_in_cycle,
      descending_to_down |-> x.descending_to_down,
      reps |-> x.reps, correct_reps |-> x.correct_reps,
      incorrect_reps |-> x.incorrect_reps ]

\* C16: on a frame where an arm's angle is absent or the arm is flagged not
\* visible, update leaves the arm's committed level, pending level, pending
\* start time, angle history, min/max cycle angles, progress flags and counters
\* unchanged; a transition pending before the gap is still pending after it.
C16_GatedArmUntouched ==
    [][lastOp' = "update"
         => \A a \in Arms :
               GatedOut(trk'[1].arm[a])
               => EvaluationFields(trk'[1].arm[a]) = EvaluationFields(trk[1].arm[a])]_vars

\* A frame gated the arm out while a level had been pending for it.
C16_Witness ==
    \E a \in Arms :
        /\ lastOp = "update"
        /\ GatedOut(trk[1].arm[a])
        /\ trk[1].arm[a].state = "down"
        /\ trk[1].arm[a].pending_state = "up"
        /\ trk[1].arm[a].pending_since # None
        /\ trk[1].arm[a].pending_since[1] < clock[1]
        /\ ~ghost.arm[a].committedNow

\* C17: on a frame where an arm is gated out (angle absent or not visible) the
\* arm's 3-sample torso window and its torso-violation flag are left
\* unchanged.
C17_GatedArmKeepsTorsoWindow ==
    [][lastOp' = "update"
         => \A a \in Arms :
               GatedOut(trk'[1].arm[a])
               => /\ trk'[1].arm[a].torso_angles = trk[1].arm[a].torso_angles
                  /\ trk'[1].arm[a].torso_violation_during_transition
                       = trk[1].arm[a].torso_violation_during_transition]_vars

\* C18: when a cycle closes without being counted, the arm's incorrect counter
\* is unchanged and the side's stored most-recent reason list is the same as
\* before the close.
C18_UncountedCloseKeepsReasons ==
    [][lastOp' = "update"
         => \A a \in Arms :
               LET x == trk[1].arm[a]
                   y == trk'[1].arm[a]
               IN (x.state \in {"up", "transition"} /\ y.state = "down" /\ y.reps = x.reps)
                  => /\ y.incorrect_reps = x.incorrect_reps
                     /\ y.last_rep_reasons = x.last_rep_reasons]_vars

\* C19: every commit into TRANSITION or UP from the cycle-start commit on
\* leaves the matching visited flag true until the close; a cycle DOWN, UP,
\* TRANSITION, DOWN closes with visited_up true and without the reason
\* "did not reach UP".
C19_VisitedFlagsKept ==
    \A a \in Arms :
        LET g == ghost.arm[a]
            x == trk[1].arm[a]
        IN /\ (g.cyc # <<>> /\ (x.state # "down" \/ g.closedNow))
              => /\ InSeq("up", g.cyc) => x.visited_up
                 /\ InSeq("transition", g.cyc) => x.visited_transition
           /\ (g.closedNow /\ g.cyc = <<"down", "up", "transition", "down">>)
              => /\ x.visited_up
                 /\ "did_not_reach_up" \notin x.invalid_reasons

\* What the dwell and the counting of an arm consist of.
LevelFields(x) ==
    [ state |-> x.state, pending_state |-> x.pending_state,
      pending_since |-> x.pending_since, reps |-> x.reps,
      cycle_index |-> x.cycle_index,
      started_from_down |-> x.started_from_down,
      reached_up_in_cycle |-> x.reached_up_in_cycle,
      descending_to_down |-> x.descending_to_down ]

WithoutTorso(rs) == SelectSeq(rs, LAMBDA r : r # "torso_exceeded")

C27_ProgressFlagsOrdered ==
    \A a \in Arms :
        LET x == trk[1].arm[a]
        IN /\ x.descending_to_down => x.reached_up_in_cycle
           /\ x.reached_up_in_cycle => x.started_from_down
           /\ x.state = "down"
              => ~x.started_from_down /\ ~x.reached_up_in_cycle /\ ~x.descending_to_down

\* An uncounted close (the cycle went DOWN, UP, DOWN) has just cleared flags
\* that stood at (T,T,F).
C27_Witness ==
    \E a \in Arms :
        /\ ghost.arm[a].closedNow
        /\ ghost.arm[a].cyc = <<"down", "up", "down">>
        /\ ~Counted(a)
        /\ ~trk[1].arm[a].started_from_down

\* C28: in every reachable state, for each arm, the pending level is absent
\* or one of DOWN, TRANSITION, UP different from the committed level, and the
\* pending start time is present exactly when the pending level is.
C28_PendingWellFormed ==
    \A a \in Arms :
        LET x == trk[1].arm[a]
        IN /\ x.pending_state \in Levels \cup {"none"}
           /\ x.pending_state # x.state
           /\ x.pending_since # None <=> x.pending_state # "none"

\* A frame proposing the committed level has just cleared a pending level.
C28_Witness ==
    \E a \in Arms :
        /\ SpikeReverted(a)
        /\ ~ghost.arm[a].lastEval[1].commit
        /\ trk[1].arm[a].state = "transition"
        /\ trk[1].arm[a].pending_state = "none"
        /\ trk[1].arm[a].pending_since = None

\* C29: the reason "did not reach DOWN" is produced by no cycle close.
C29_NeverDidNotReachDown ==
    \A a \in Arms :
        /\ "did_not_reach_down" \notin trk[1].arm[a].invalid_reasons
        /\ ~InSeq("did_not_reach_down", trk[1].arm[a].last_rep_reasons)

\* The first commit into DOWN of an arm is a close (from UNKNOWN the arm went to
\* UP or TRANSITION first): visited_down was false until this commit.
C29_Witness ==
    \E a \in Arms :
        /\ ghost.arm[a].closedNow
        /\ ghost.arm[a].cyc = <<>>
        /\ trk[1].arm[a].cycle_index = 0
        /\ trk[1].arm[a].last_rep_reasons # <<>>
        /\ trk[1].arm[a].visited_down

\* C30: an arm's committed level starts as UNKNOWN, changes only to a level
\* that was already pending for min_hold_time or more (so never on the first
\* evaluated frame), never becomes UNKNOWN again unless reset is called, and a
\* commit is decided only for a proposed level different from the committed one.
C30_UnknownOnlyAtStart ==
    /\ \A a \in Arms : trk[1].arm[a].state = "unknown"
    /\ \A st \in Levels \cup {"unknown"}, ps \in Levels \cup {"none"}, p \in Levels :
          Dwell(st, ps, Some(0), p, min_hold_time).commit => p # st
    /\ [][/\ lastOp' = "update"
             => \A a \in Arms :
                   LET x == trk[1].arm[a]
                       y == trk'[1].arm[a]
                   IN y.state # x.state
                      => /\ y.state \in Levels
                         /\ x.pending_state = y.state
                         /\ clock'[1] - x.pending_since[1] >= min_hold_time
          /\ lastOp' = "get_status" => \A a \in Arms : trk'[1].arm[a].state = trk[1].arm[a].state]_vars

\* An arm has just left UNKNOWN.
C30_Witness ==
    \E a \in Arms :
        /\ ghost.arm[a].lastEval # None
        /\ ghost.arm[a].lastEval[1].before = "unknown"
        /\ ghost.arm[a].lastEval[1].commit
        /\ trk[1].arm[a].state = "up"

\* ------------------------------------------ properties of observed cycles
StartCommit(a) ==
    lastOp = "update" /\ ghost.arm[a].committedNow /\ Len(ghost.arm[a].cyc) = 2

CountedClose(a) == lastOp = "update" /\ ghost.arm[a].closedNow /\ Counted(a)

SetMax(S) == CHOOSE x \in S : \A y \in S : y <= x
SetMin(S) == CHOOSE x \in S : \A y \in S : x <= y

LastN(s, n) == IF Len(s) <= n THEN s ELSE SubSeq(s, Len(s) - n + 1, Len(s))

\* C21: when the torso angle of a frame of a cycle is the sentinel of missing
\* landmarks (999) and the cycle ends up counted, the rep is counted as
\* incorrect and its reasons hold the torso reason, however small the other
\* torso samples are.
C21_MissingTorsoFailsSafe ==
    \A a \in Arms :
        CountedClose(a) /\ ghost.obs[a].missing
        => /\ trk[1].arm[a].incorrect_reps = ghost.arm[a].pre.incorrect_reps + 1
           /\ trk[1].arm[a].correct_reps = ghost.arm[a].pre.correct_reps
           /\ InSeq("torso_exceeded", trk[1].arm[a].last_rep_reasons)

\* A counted cycle had the sentinel on its first frame and an upright torso on
\* every later one.
C21_Witness ==
    \E a \in Arms :
        /\ CountedClose(a)
        /\ ghost.obs[a].missing
        /\ ghost.arm[a].cyc = <<"down", "transition", "up", "transition", "down">>
        /\ ghost.arm[a].tw = <<0, 0>>
        /\ ghost.obs[a].sample = 0
        /\ env.gated = 0

\* C23 as stated: right after a cycle-start commit the torso flag is false,
\* the torso window empty, min/max unset, started_from_down true and both
\* reached_up_in_cycle and descending_to_down false.
C23_Original ==
    \A a \in Arms :
        StartCommit(a)
        => /\ ~trk[1].arm[a].torso_violation_during_transition
           /\ trk[1].arm[a].torso_angles = <<>>
           /\ trk[1].arm[a].min_angle_in_rep = None
           /\ trk[1].arm[a].max_angle_in_rep = None
           /\ trk[1].arm[a].started_from_down
           /\ ~trk[1].arm[a].reached_up_in_cycle
           /\ ~trk[1].arm[a].descending_to_down

\* C23: right after a cycle-start commit (DOWN -> TRANSITION or DOWN -> UP)
\* the torso flag is false, the torso window empty, min/max unset,
\* started_from_down true and descending_to_down false; reached_up_in_cycle is
\* false after DOWN -> TRANSITION and true after DOWN -> UP.  A counted rep
\* carries the torso reason only for torso samples of its own cycle: neither a
\* violation of an earlier cycle nor a sample seen while DOWN makes it incorrect.
C23_CycleStartResets ==
    \A a \in Arms :
        /\ StartCommit(a)
           => /\ ~trk[1].arm[a].torso_violation_during_transition
              /\ trk[1].arm[a].torso_angles = <<>>
              /\ trk[1].arm[a].min_angle_in_rep = None
              /\ trk[1].arm[a].max_angle_in_rep = None
              /\ trk[1].arm[a].started_from_down
              /\ trk[1].arm[a].reached_up_in_cycle <=> trk[1].arm[a].state = "up"
              /\ ~trk[1].arm[a].descending_to_down
        /\ CountedClose(a) /\ ~ghost.arm[a].viol
           => ~InSeq("torso_exceeded", trk[1].arm[a].last_rep_reasons)

\* A cycle has just started with DOWN -> UP while the torso flag was still set
\* from the frames before.
C23_Witness ==
    \E a \in Arms :
        /\ StartCommit(a)
        /\ ghost.obs[a].preFlag
        /\ ghost.obs[a].sample = 45
        /\ trk[1].arm[a].state = "up"
        /\ trk[1].arm[a].reached_up_in_cycle

\* C24: the torso flag of an arm becomes set only on a frame where the window,
\* the new sample included, holds exactly 3 samples whose sum is strictly
\* greater than 3 times torso_angle_threshold; one sample above the threshold
\* in a window whose average is at or below it, or fewer than 3 samples since
\* the cycle started, never set it.
C24_FlagNeedsFullWindowAverage ==
    \A a \in Arms :
        LET o == ghost.obs[a]
            w == LastN(Append(o.preWindow, o.sample), TorsoWindow)
        IN /\ Len(trk[1].arm[a].torso_angles) <= TorsoWindow
           /\ lastOp = "update" /\ trk[1].arm[a].torso_violation_during_transition
                /\ ~o.preFlag
              => Len(w) = TorsoWindow /\ SeqSum(w) > TorsoWindow * torso_angle_threshold

\* A full window holds two samples above the threshold and averages exactly
\* the threshold: the flag stays clear.
C24_Witness ==
    \E a \in Arms :
        /\ lastOp = "update"
        /\ trk[1].arm[a].torso_angles = <<45, 0, 45>>
        /\ ghost.obs[a].sample = 45
        /\ ~trk[1].arm[a].torso_violation_during_transition

\* C25: with min_rom_degrees > 0 a counted rep carries the reason
\* "insufficient ROM", and is then incorrect, exactly when the largest minus the
\* smallest raw angle over the arm's evaluated frames of that cycle (the frames
\* after the cycle-start commit, up to the closing one) is below
\* min_rom_degrees; raw angles of earlier frames do not enter.
C25_InsufficientRomIffSmallRange ==
    \A a \in Arms :
        CountedClose(a) /\ trk[1].min_rom_degrees > 0
        => LET r == ghost.obs[a].rng
               short == SetMax(r) - SetMin(r) < trk[1].min_rom_degrees
           IN /\ InSeq("insufficient_rom", trk[1].arm[a].last_rep_reasons) <=> short
              /\ short => trk[1].arm[a].incorrect_reps = ghost.arm[a].pre.incorrect_reps + 1

\* The second counted rep bends to 45 degrees only, after a first one that went
\* to 40: its range 170 - 45 is below MinRom.
C25_Witness ==
    \E a \in Arms :
        /\ CountedClose(a)
        /\ trk[1].min_rom_degrees = MinRom
        /\ trk[1].arm[a].reps = 2
        /\ trk[1].arm[a].correct_reps = 1
        /\ ghost.obs[a].rng = {100, 45, 170}
        /\ trk[1].arm[a].last_rep_reasons = <<"insufficient_rom">>

\* C26: the angle history of an arm holds at most history_length samples, the
\* most recent raw angles of its evaluated frames since the last cycle close in
\* arrival order, and the torso window holds at most 3 samples.
C26_HistoriesBounded ==
    \A a \in Arms :
        /\ Len(trk[1].arm[a].angle_history) <= history_length
        /\ trk[1].arm[a].angle_history = LastN(ghost.obs[a].seen, history_length)
        /\ Len(trk[1].arm[a].torso_angles) <= TorsoWindow

\* Fourteen evaluated frames came without a close: the oldest pose is gone.
C26_Witness ==
    \E a \in Arms :
        /\ Len(ghost.obs[a].seen) = history_length + 2
        /\ Len(trk[1].arm[a].angle_history) = history_length
        /\ trk[1].arm[a].angle_history[1] # ghost.obs[a].seen[1]
        /\ Len(trk[1].arm[a].torso_angles) = TorsoWindow

\* C22: two trackers fed the same frames in the same order report the same
\* levels, counters and reasons after every frame, whenever each update call
\* is executed.
C22_SameFramesSameOutput ==
    env.mode = "clock"
    => \A a \in Arms :
          /\ trk[1].arm[a].state = trk[2].arm[a].state
          /\ ArmCounters(trk[1].arm[a]) = ArmCounters(trk[2].arm[a])
          /\ trk[1].arm[a].last_rep_reasons = trk[2].arm[a].last_rep_reasons
          /\ trk[1].total_reps = trk[2].total_reps

\* C31: for the level column recorded from one arm, one row per frame and no
\* reset, the number of reps _detect_reps_for_arm finds equals the number of
\* reps the tracker counted for that arm, and the detected rep windows do not
\* overlap.
C31_DetectedRepsMatchCounted ==
    \A a \in Arms :
        LET reps == DetectRepsForArm(ghost.rows[a])
        IN /\ Len(reps) = trk[1].arm[a].reps
           /\ \A k \in 1..Len(reps) : reps[k].start_idx < reps[k].end_idx
           /\ \A k \in 1..(Len(reps) - 1) : reps[k].end_idx < reps[k + 1].start_idx

\* The column holds two counted reps, one after the other, in a run with an odd
\* frame.
C31_Witness ==
    \E a \in Arms :
        /\ trk[1].arm[a].reps = 2
        /\ Len(DetectRepsForArm(ghost.rows[a])) = 2
        /\ DetectRepsForArm(ghost.rows[a])[1].end_idx
              < DetectRepsForArm(ghost.rows[a])[2].start_idx
        /\ env.odd = 1

\* C32: the snapshot get_status returns right after reset() equals, field for
\* field (visibility flags, confidences and visibility messages included), the
\* snapshot of a freshly constructed tracker.
C32_ResetSnapshotFresh ==
    lastOp = "reset" => GetStatusOf(trk[1]) = GetStatusOf(InitTracker)

====
